---- MODULE Spec2Model ----
(***************************************************************************)
(* Model of widdly's revisioned tiddler stores: the flat-file backend      *)
(* (package flatfile) and the DynamoDB backend (package dynamodb), driven  *)
(* by concurrent callers of Get / All / Put / Delete.                      *)
(*                                                                         *)
(* Strings are sequences of one-character strings so that sanitizeKey,     *)
(* strings.HasPrefix, strconv.Itoa / Atoi and the history file names are   *)
(* computed as the code computes them.  A JSON document ("bytes") is a     *)
(* record [ok, pairs]: ok = FALSE is text json.Unmarshal rejects (this     *)
(* includes the empty byte slice), pairs is the ordered list of            *)
(* <<name, value>> members of the object.                                  *)
(***************************************************************************)
EXTENDS Integers, Sequences, FiniteSets, TLC

\* ------------------------------------------------------------------ bounds
\* number of store calls issued in one sequential behaviour
MaxOps == 3
\* number of store calls issued in one concurrent behaviour
MaxConcOps == 3
\* number of filesystem / remote calls that fail in one behaviour
MaxFail == 1
\* number of store calls issued in one behaviour of the lambda build
MaxLambdaOps == 4
\* number of store calls issued in one behaviour of the flatfile build
MaxFlatOps == 2
\* number of requests the handlers serve in one behaviour
MaxHttpOps == 3

Workers == {"w1", "w2"}
FirstWorker == "w1"

\* ----------------------------------------------------------------- strings
Range(s) == {s[i] : i \in 1..Len(s)}

DigitChars == <<"0", "1", "2", "3", "4", "5", "6", "7", "8", "9">>

IsDigit(c) == \E d \in 1..10 : DigitChars[d] = c

DigitVal(c) == (CHOOSE d \in 1..10 : DigitChars[d] = c) - 1

\* strconv.Itoa for n >= 0
RECURSIVE Itoa(_)
Itoa(n) == IF n < 10 THEN <<DigitChars[n + 1]>>
           ELSE Itoa(n \div 10) \o <<DigitChars[(n % 10) + 1]>>

RECURSIVE AtoiVal(_)
AtoiVal(s) == IF s = <<>> THEN 0
              ELSE 10 * AtoiVal(SubSeq(s, 1, Len(s) - 1)) + DigitVal(s[Len(s)])

\* strconv.Atoi on an unsigned decimal: [ok, n]
Atoi(s) == IF s # <<>> /\ \A i \in 1..Len(s) : IsDigit(s[i])
           THEN [ok |-> TRUE, n |-> AtoiVal(s)]
           ELSE [ok |-> FALSE, n |-> 0]

HasPrefix(s, p) == Len(s) >= Len(p) /\ SubSeq(s, 1, Len(p)) = p

\* ------------------------------------------------------------------- keys
StoryList == <<"$", ":", "/", "S", "t", "o", "r", "y", "L", "i", "s", "t">>
DraftPrefix == <<"D", "r", "a", "f", "t", " ", "o", "f", " ">>
MacroTag == <<"$", ":", "/", "t", "a", "g", "s", "/", "M", "a", "c", "r", "o">>

KeySlash == <<"a", "/", "b">>
KeyUnder == <<"a", "_", "b">>
KeyDraft == DraftPrefix \o <<"a">>

Keys == {KeySlash, KeyUnder, StoryList, KeyDraft}

\* the keys concurrent callers contend for
ConcKeys == {KeyUnder}

\* the keys the requests of the lambda build name
LambdaKeys == {KeyUnder}

\* the keys the concurrent callers of the flatfile build name
FlatKeys == {KeyUnder}

\* the keys the requests to the handlers name
HttpKeys == {KeyUnder}

TextHi == <<"h", "i">>

\* the characters keySanitizer replaces by "_"
HostileChars == {"/", "\\", ":", "*", "?", "\"", ">", "<", "|", "[", "]"}

\* a file name that keeps every character of the key
sanitizeKey_Verbatim(key) == key

sanitizeKey(key) == [i \in 1..Len(key) |->
                        IF key[i] \in HostileChars THEN "_" ELSE key[i]]

\* skipHistory without the test of the draft prefix
skipHistory_StoryListOnly(key) == key = StoryList

skipHistory(key) == key = StoryList \/ HasPrefix(key, DraftPrefix)

\* ------------------------------------------------------------------- JSON
JStr(s) == [t |-> "string", v |-> s]
JNum(n) == [t |-> "number", v |-> Itoa(n)]

NilBytes == [ok |-> FALSE, pairs |-> <<>>]

\* encoding/json sorts the keys of a map when it marshals it
FieldOrder == <<"bag", "revision", "tags", "text", "title">>

\* json.Unmarshal into map[string]interface{}: the last member of a name wins
Unmarshal(bytes) ==
    [ok  |-> bytes.ok,
     obj |-> [n \in {p[1] : p \in Range(bytes.pairs)} |->
                LET idx == CHOOSE i \in 1..Len(bytes.pairs) :
                              /\ bytes.pairs[i][1] = n
                              /\ \A j \in (i + 1)..Len(bytes.pairs) :
                                    bytes.pairs[j][1] # n
                IN  bytes.pairs[idx][2]]]

\* json.Marshal of a map[string]interface{}
Marshal(obj) ==
    LET names == SelectSeq(FieldOrder, LAMBDA n : n \in DOMAIN obj)
    IN  [ok |-> TRUE, pairs |-> [i \in 1..Len(names) |-> <<names[i], obj[names[i]]>>]]

\* js[name] = value
SetField(obj, name, val) ==
    [n \in DOMAIN obj \cup {name} |-> IF n = name THEN val ELSE obj[n]]

\* bytes.Contains(meta, []byte(`"$:/tags/Macro"`)): the quoted tag is a member
\* value (or name) of the document
ContainsMacro(bytes) ==
    \E p \in Range(bytes.pairs) : p[2] = JStr(MacroTag)

\* store.Tiddler
Tiddler(key, meta, text, withText) ==
    [Key |-> key, Meta |-> meta, Text |-> text, WithText |-> withText]

ZeroTiddler == Tiddler(<<>>, NilBytes, <<>>, FALSE)

\* the metadata documents callers put
MetaPlain(key) == [ok |-> TRUE, pairs |-> <<<<"title", JStr(key)>>, <<"tags", JStr(<<>>)>>>>]
MetaMacro(key) == [ok |-> TRUE, pairs |-> <<<<"tags", JStr(MacroTag)>>, <<"title", JStr(key)>>>>]
MetaBad == [ok |-> FALSE, pairs |-> <<<<"title", JStr(<<>>)>>>>]

\* the JSON object in the body of a PUT request for an ordinary tiddler: the
\* members of its meta and its text
BodyPlain(key) ==
    [ok |-> TRUE, pairs |-> MetaPlain(key).pairs \o <<<<"text", JStr(TextHi)>>>>]

BagName == <<"b", "a", "g">>

\* delete(js, name)
DeleteField(obj, name) == [n \in DOMAIN obj \ {name} |-> obj[n]]

\* text, _ := js["text"].(string)
TextOf(obj) ==
    IF "text" \in DOMAIN obj /\ obj["text"].t = "string" THEN obj["text"].v ELSE <<>>

\* a handler that leaves the text in the object it marshals into the meta
putTiddler_KeepsText(key, body) ==
    Tiddler(key, Marshal(SetField(Unmarshal(body).obj, "bag", JStr(BagName))),
            TextOf(Unmarshal(body).obj), FALSE)

\* the tiddler the handler putTiddler hands to Store.Put for a request body it
\* could decode: js["bag"] = "bag", the text taken out of js, the rest
\* marshalled into the meta
putTiddler(key, body) ==
    LET js == SetField(Unmarshal(body).obj, "bag", JStr(BagName))
    IN  Tiddler(key, Marshal(DeleteField(js, "text")), TextOf(js), FALSE)

\* the tiddlers callers put under key: an ordinary one that arrives through the
\* handler and, under one key each, a macro with an empty text and one whose
\* meta is not JSON
PutInputs(key) ==
    {putTiddler(key, BodyPlain(key))}
    \cup (IF key = KeyUnder THEN {Tiddler(key, MetaMacro(key), <<>>, FALSE)} ELSE {})
    \cup (IF key = KeySlash THEN {Tiddler(key, MetaBad, TextHi, FALSE)} ELSE {})

\* ------------------------------------------------------------------ state
VARIABLES
    mode,        \* "seq": one caller at a time; "conc": concurrent callers;
                 \* "lambda": the lambda build, which links the dynamodb
                 \* package only and serves one request at a time
    backend,     \* store.MustOpen: the backend whose init claimed it, if any
    inits,       \* the backends whose init ran, in order
    phase,       \* "init": package initialization; "exists.<table>" and
                 \* "create.<table>": the position of dynamodb.MustOpen in
                 \* CreateTables; "run": main opened the store; "panic": the
                 \* process died at startup
    tables,      \* the tables the DynamoDB service holds
    lock,        \* flatFileStore.m: [writer, readers]
    tidFiles,    \* <root>/tiddlers/<name>.tid   : name -> text
    metaFiles,   \* <root>/tiddlers/<name>.meta  : name -> bytes
    histFiles,   \* <root>/tiddlerHistory/<file> : file name -> bytes
    docs,        \* DynamoDB table "tiddlers"    : key -> item
    histTable,   \* DynamoDB table "tiddlers_history" : <<key, revision>> -> item
    pc,          \* position of each worker in the operation it runs
    loc,         \* arguments and local variables of that operation
    nops,        \* calls issued so far
    nfail,       \* failed filesystem / remote calls so far
    rets,        \* per key, the revisions returned by its successful Puts, in order
    last,        \* result of the call that returned last
    prev,        \* result of the call that returned before it, if it was a Put
    deleted,     \* keys whose Delete succeeded and that were not put since
    putCalled,   \* keys Put was called on
    delCalled,   \* keys Delete was called on
    written      \* per history file, how many times it was written

vars == <<mode, backend, inits, phase, tables, lock, tidFiles, metaFiles, histFiles, docs,
          histTable, pc, loc,
          nops, nfail, rets, last, prev, deleted, putCalled, delCalled, written>>

storeVars == <<tidFiles, metaFiles, histFiles, docs, histTable>>
ghostVars == <<rets, last, prev, deleted, putCalled, delCalled>>

Backends == {"flatfile", "dynamodb"}
\* dynamodbStore.tableTiddlers, dynamodbStore.tableHistory
tableTiddlers == "tiddlers"
tableHistory == "tiddlers_history"
TableNames == {tableTiddlers, tableHistory}
\* the nil store.MustOpen
NoBackend == "nil"
\* api.Store as the handlers see it: some implementation of store.TiddlerStore
AnyStore == "TiddlerStore"
Ops == {"Get", "All", "Put", "Delete"}

NoWorker == "none"

\* store.ErrNotFound, any other error value, a run-time panic
ErrNil == "nil"
ErrNotFound == "ErrNotFound"
ErrOther == "error"
ErrPanic == "panic"

EmptyFcn == <<>>

Store == <<tidFiles, metaFiles, histFiles, docs, histTable>>

\* f with f[k] = v
Write(f, k, v) == [x \in DOMAIN f \cup {k} |-> IF x = k THEN v ELSE f[x]]
\* a removal that takes everything with it
Remove_All(f, k) == [x \in {} |-> f[x]]
\* f without k
Remove(f, k) == [x \in DOMAIN f \ {k} |-> f[x]]

\* ------------------------------------------------- DynamoDB attribute values
AttrS(s) == [T |-> "S", V |-> s]
AttrNull == [T |-> "NULL", V |-> <<>>]
AttrB(b) == [T |-> "B", V |-> b]
AttrBool(b) == [T |-> "BOOL", V |-> b]
AttrN(n) == [T |-> "N", V |-> Itoa(n)]

\* dynamodbattribute encodes an empty string as NULL
EncodeString(s) == IF s = <<>> THEN AttrNull ELSE AttrS(s)

\* dynamodbattribute.MarshalMap(store.Tiddler)
MarshalTiddler(t) ==
    [Key |-> EncodeString(t.Key), Meta |-> AttrB(t.Meta),
     Text |-> EncodeString(t.Text), WithText |-> AttrBool(t.WithText)]

\* dynamodbattribute.MarshalMap(TiddlerRevision)
MarshalRevision(key, text, r) ==
    [Key |-> EncodeString(key), Revision |-> AttrN(r), Text |-> EncodeString(text)]

\* an UnmarshalMap that does not fill Text
UnmarshalTiddler_NoText(item) ==
    Tiddler(IF "Key" \in DOMAIN item /\ item["Key"].T = "S" THEN item["Key"].V ELSE <<>>,
            IF "Meta" \in DOMAIN item /\ item["Meta"].T = "B" THEN item["Meta"].V ELSE NilBytes,
            <<>>,
            IF "WithText" \in DOMAIN item /\ item["WithText"].T = "BOOL"
                THEN item["WithText"].V ELSE FALSE)

\* dynamodbattribute.UnmarshalMap(item, &store.Tiddler{}): attributes that are
\* absent or NULL leave the zero value
UnmarshalTiddler(item) ==
    Tiddler(IF "Key" \in DOMAIN item /\ item["Key"].T = "S" THEN item["Key"].V ELSE <<>>,
            IF "Meta" \in DOMAIN item /\ item["Meta"].T = "B" THEN item["Meta"].V ELSE NilBytes,
            IF "Text" \in DOMAIN item /\ item["Text"].T = "S" THEN item["Text"].V ELSE <<>>,
            IF "WithText" \in DOMAIN item /\ item["WithText"].T = "BOOL"
                THEN item["WithText"].V ELSE FALSE)

\* GetItem on the tiddlers table: a missing key is answered without error and
\* without an item
GetItem(key) == IF key \in DOMAIN docs THEN docs[key] ELSE EmptyFcn

\* ------------------------------------------------------------ flat-file scan
AllDigits(s) == \A i \in 1..Len(s) : IsDigit(s[i])

\* the revision a history file name carries for key, 0 if it is not one of its
\* files: Glob "*"+key+"#[1-9]*" filtered by the regexp sep+key+`#(\d+)$`
FileRevision(file, key) ==
    LET n == Len(key)
        digits == SubSeq(file, n + 2, Len(file))
    IN  IF /\ Len(file) >= n + 2
           /\ SubSeq(file, 1, n) = key
           /\ file[n + 1] = "#"
           /\ AllDigits(digits)
           /\ digits[1] # "0"
        THEN Atoi(digits).n
        ELSE 0

SetMax(S) == IF S = {} THEN 0 ELSE CHOOSE m \in S : \A x \in S : x <= m

\* flatFileStore.nextRevision
nextRevision(key) == SetMax({FileRevision(f, key) : f \in DOMAIN histFiles}) + 1

\* fmt.Sprintf("%s#%d", skey, rev)
HistName(skey, r) == skey \o <<"#">> \o Itoa(r)

\* dynamodbStore.GetMeta
GetMeta(t) == Unmarshal(t.Meta)

\* the outcome of reading the revision of a parsed meta: jsMeta["revision"].(string)
\* panics unless the member is a string, strconv.Atoi may fail
MetaRevision(js) ==
    IF "revision" \notin DOMAIN js.obj \/ js.obj["revision"].t # "string"
    THEN [out |-> "panic", n |-> 0]
    ELSE IF ~Atoi(js.obj["revision"].v).ok
         THEN [out |-> "atoi", n |-> 0]
         ELSE [out |-> "ok", n |-> Atoi(js.obj["revision"].v).n]

\* whether key has a current document
HasDoc(key) ==
    IF backend = "flatfile"
    THEN sanitizeKey(key) \in DOMAIN metaFiles /\ sanitizeKey(key) \in DOMAIN tidFiles
    ELSE key \in DOMAIN docs

\* ---------------------------------------------------------------- handlers
StatusOK == 200
StatusNoContent == 204
StatusNotFound == 404
StatusInternalServerError == 500
\* the handler panicked: net/http closes the connection without a response
NoResponse == 0

\* internalError: http.Error(w, "internal error", 500)
internalError == StatusInternalServerError

\* getTiddler, from the return of Store.Get on: store.ErrNotFound is answered
\* by http.NotFound, any other error and a failing t.MarshalJSON (a meta that
\* is not a JSON object) by internalError
getTiddler(err, t) ==
    IF err # ErrNil
    THEN IF err = ErrNotFound THEN StatusNotFound ELSE internalError
    ELSE IF Unmarshal(t.Meta).ok THEN StatusOK ELSE internalError

\* remove, from the return of Store.Delete on
remove(err) == IF err # ErrNil THEN internalError ELSE StatusNoContent

\* list, from the return of Store.All on
list(err) == IF err # ErrNil THEN internalError ELSE StatusOK

\* putTiddler, from the return of Store.Put on
putTiddlerStatus(err) == IF err # ErrNil THEN internalError ELSE StatusNoContent

\* the status of the response to the request that made the call
Respond(op, err, t) ==
    CASE err = ErrPanic -> NoResponse
      [] op = "Get" -> getTiddler(err, t)
      [] op = "Delete" -> remove(err)
      [] op = "All" -> list(err)
      [] op = "Put" -> putTiddlerStatus(err)
      [] OTHER -> NoResponse

\* ------------------------------------------------------------------- results
\* what a call returned (op, key, Meta, Text are its arguments), with what an
\* observer saw around it: failed - one of its filesystem / remote calls
\* failed; conc - another call was running when it was issued; and, for a
\* sequential caller, hadDoc - the key had a current document when the call was
\* issued; unchanged - the store is as it was then
Result(op, key, meta, text, err, r, t, all, hadDoc, unchanged, failed, conc, status) ==
    [op |-> op, key |-> key, Meta |-> meta, Text |-> text, err |-> err, rev |-> r,
     t |-> t, all |-> all, hadDoc |-> hadDoc, unchanged |-> unchanged,
     failed |-> failed, conc |-> conc, status |-> status]

NoResult == Result("none", <<>>, NilBytes, <<>>, ErrNil, 0, ZeroTiddler, {}, FALSE, TRUE,
                   FALSE, FALSE, NoResponse)

Locals(op, key, meta, text, hadDoc, snap, conc) ==
    [op |-> op, key |-> key, Meta |-> meta, Text |-> text, rev |-> 0, cur |-> 0,
     i |-> 0, got |-> ZeroTiddler, err |-> ErrNil, t |-> ZeroTiddler, all |-> {},
     hadDoc |-> hadDoc, snap |-> snap, failed |-> FALSE, conc |-> conc,
     ctx |-> "live"]

\* callers run concurrently
Concurrent == mode \in {"conc", "flat"}

IdleLocals == Locals("none", <<>>, NilBytes, <<>>, FALSE, <<>>, FALSE)

\* an empty store and no call made
Empty ==
    /\ lock = [writer |-> NoWorker, readers |-> {}]
    /\ tidFiles = EmptyFcn
    /\ metaFiles = EmptyFcn
    /\ histFiles = EmptyFcn
    /\ docs = EmptyFcn
    /\ histTable = EmptyFcn
    /\ pc = [w \in Workers |-> "idle"]
    /\ loc = [w \in Workers |-> IdleLocals]
    /\ nops = 0
    /\ nfail = 0
    /\ rets = [k \in Keys |-> <<>>]
    /\ last = NoResult
    /\ prev = NoResult
    /\ deleted = {}
    /\ putCalled = {}
    /\ delCalled = {}
    /\ written = EmptyFcn

Start ==
    /\ backend = NoBackend
    /\ inits = <<>>
    /\ phase = "init"
    /\ Empty

\* callers come one at a time
\* the tables were provisioned by an earlier start
Init == mode = "seq" /\ tables = TableNames /\ Start

\* callers run concurrently
InitConc == mode = "conc" /\ tables = TableNames /\ Start

\* the flatfile build, its callers running concurrently
InitFlat == mode = "flat" /\ tables = TableNames /\ Start

\* the handlers of package api over the store api.Store points to
InitHTTP ==
    /\ mode = "http"
    /\ tables = TableNames
    /\ backend = AnyStore
    /\ inits = <<AnyStore>>
    /\ phase = "run"
    /\ Empty

\* the lambda build, deployed against a service that holds any of the tables
InitLambda == mode = "lambda" /\ tables \in SUBSET TableNames /\ Start

\* ------------------------------------------------------------------ calls
\* whether the next filesystem / remote call may fail
Fails == IF nfail < MaxFail THEN {TRUE, FALSE} ELSE {FALSE}

Entry(op) ==
    IF backend = AnyStore THEN "Store.Call"
    ELSE IF backend = "flatfile"
    THEN CASE op = "Get" -> "Get.RLock"
           [] op = "All" -> "All.RLock"
           [] op = "Put" -> "Put.Lock"
           [] op = "Delete" -> "Delete.Lock"
    ELSE CASE op = "Get" -> "DGet.GetItem"
           [] op = "All" -> "DAll.Scan"
           [] op = "Put" -> "DPut.NextRevision"
           [] op = "Delete" -> "DDel.Get"

\* the operation of w goes on at label with the locals l
Step(w, l, label) ==
    /\ loc' = [loc EXCEPT ![w] = l]
    /\ pc' = [pc EXCEPT ![w] = label]
    /\ UNCHANGED <<lock, rets, last, prev, deleted>>

\* the operation of w returns to its caller with the locals l; the deferred
\* Unlock / RUnlock of the flat-file backend runs.  The steps that finish set
\* the files and tables before they return.
Released(w) ==
    [writer  |-> IF lock.writer = w THEN NoWorker ELSE lock.writer,
     readers |-> lock.readers \ {w}]

\* an unlock that the error returns skip
Unlock_NotOnError(w, err) == IF err = ErrNil THEN Released(w) ELSE lock

\* defer s.m.Unlock() / defer s.m.RUnlock(): run on every return
Unlock(w, err) == Released(w)

Finish(w, l) ==
    /\ lock' = Unlock(w, l.err)
    /\ prev' = IF last.op = "Put" THEN last ELSE NoResult
    /\ last' = Result(l.op, l.key, l.Meta, l.Text, l.err, l.rev, l.t, l.all, l.hadDoc,
                      ~Concurrent /\ l.snap = Store', l.failed, l.conc,
                      Respond(l.op, l.err, l.t))
    /\ rets' = IF l.op = "Put" /\ l.err = ErrNil
               THEN [rets EXCEPT ![l.key] = Append(@, l.rev)]
               ELSE rets
    /\ deleted' = IF l.op = "Delete" /\ l.err = ErrNil
                  THEN deleted \cup {l.key}
                  ELSE deleted
    /\ loc' = [loc EXCEPT ![w] = IdleLocals]
    /\ pc' = [pc EXCEPT ![w] = "idle"]

\* the operation returns err (and nothing else)
Fail(w, err) ==
    Finish(w, [loc[w] EXCEPT !.err = err, !.rev = 0, !.t = ZeroTiddler, !.all = {}])

\* the operation returns err because a filesystem / remote call failed
FailIO(w, err) ==
    Finish(w, [loc[w] EXCEPT !.err = err, !.rev = 0, !.t = ZeroTiddler, !.all = {},
                             !.failed = TRUE])

Count(fail) == nfail' = IF fail THEN nfail + 1 ELSE nfail

\* a request on the history table: the service refuses it when it does not
\* hold the table
HistoryFails == IF tableHistory \in tables THEN Fails ELSE {TRUE}

\* the backend packages a build may link; the main package of the lambda build
\* imports store/dynamodb only, the flatfile build compiles the flat-file
\* backend only
Linked ==
    CASE mode = "lambda" -> {"dynamodb"}
      [] mode = "flat" -> {"flatfile"}
      [] OTHER -> Backends

\* a registration that never finds the slot taken
SlotTaken_Never == FALSE

\* store.MustOpen != nil
SlotTaken == backend # NoBackend

\* the init function of the package of backend b, run once if the build links
\* the package: it panics if store.MustOpen is set, and sets it otherwise
init(b) ==
    /\ phase = "init"
    /\ b \in Linked
    /\ b \notin Range(inits)
    /\ inits' = Append(inits, b)
    /\ IF SlotTaken
       THEN phase' = "panic" /\ UNCHANGED backend
       ELSE backend' = b /\ UNCHANGED phase
    /\ UNCHANGED <<mode, tables, lock, storeVars, pc, loc, nops, nfail, ghostVars, written>>

\* the position of CreateTables at a table, and after it
PhaseExists(t) == IF t = tableTiddlers THEN "exists.tiddlers" ELSE "exists.history"
PhaseCreate(t) == IF t = tableTiddlers THEN "create.tiddlers" ELSE "create.history"
AfterTable(t) == IF t = tableTiddlers THEN PhaseExists(tableHistory) ELSE "run"

\* main, after the init functions of the linked packages:
\* api.Store = store.MustOpen(...); calling the nil function panics, the
\* flat-file MustOpen makes its directories, the DynamoDB one runs CreateTables
main ==
    /\ phase = "init"
    /\ phase' = CASE backend = NoBackend -> "panic"
                  [] backend = "dynamodb" -> PhaseExists(tableTiddlers)
                  [] OTHER -> "run"
    /\ UNCHANGED <<mode, backend, inits, tables, lock, storeVars, pc, loc, nops, nfail,
                   ghostVars, written>>

\* TableExists, called first by each CreateTable: DescribeTable answers an
\* absent table with an error and may fail on a present one; every error
\* makes it return false, and CreateTable returns nil when it returns true
TableExists(t) ==
    /\ phase = PhaseExists(t)
    /\ \E fail \in (IF t \in tables THEN Fails ELSE {TRUE}) :
          /\ Count(fail /\ t \in tables)
          /\ phase' = IF fail THEN PhaseCreate(t) ELSE AfterTable(t)
    /\ UNCHANGED <<mode, backend, inits, tables, lock, storeVars, pc, loc, nops,
                   ghostVars, written>>

\* TiddlerData.CreateTable returns the error of svc.CreateTable, which
\* CreateTables turns into a panic; TiddlerHistory.CreateTable drops it
CreateErrorReturned(t) == t = tableTiddlers

\* svc.CreateTable: the service refuses a table it already holds
CreateTable(t) ==
    /\ phase = PhaseCreate(t)
    /\ \E fail \in (IF t \in tables THEN {TRUE} ELSE Fails) :
          /\ Count(fail /\ t \notin tables)
          /\ tables' = IF fail THEN tables ELSE tables \cup {t}
          /\ phase' = IF fail /\ CreateErrorReturned(t) THEN "panic" ELSE AfterTable(t)
    /\ UNCHANGED <<mode, backend, inits, lock, storeVars, pc, loc, nops,
                   ghostVars, written>>

\* the keys the callers name
CallKeys ==
    CASE mode = "seq" -> Keys
      [] mode = "conc" -> ConcKeys
      [] mode = "lambda" -> LambdaKeys
      [] mode = "http" -> HttpKeys
      [] mode = "flat" -> FlatKeys

\* a worker of the HTTP layer calls Store.Get / All / Put / Delete; of two idle
\* concurrent workers the first one calls first (they are interchangeable)
Call(w) ==
    /\ phase = "run"
    /\ pc[w] = "idle"
    /\ CASE mode = "seq" ->
               w = FirstWorker /\ nops < MaxOps /\ \A v \in Workers : pc[v] = "idle"
         [] mode = "lambda" ->
               w = FirstWorker /\ nops < MaxLambdaOps /\ \A v \in Workers : pc[v] = "idle"
         [] mode = "http" ->
               w = FirstWorker /\ nops < MaxHttpOps /\ \A v \in Workers : pc[v] = "idle"
         [] mode = "flat" ->
               nops < MaxFlatOps /\ (w = FirstWorker \/ pc[FirstWorker] # "idle")
         [] mode = "conc" ->
               nops < MaxConcOps /\ (w = FirstWorker \/ pc[FirstWorker] # "idle")
    /\ \E op \in Ops :
       \E key \in (IF op = "All" THEN {<<>>} ELSE CallKeys) :
       \E arg \in (IF op = "Put" THEN PutInputs(key) ELSE {ZeroTiddler}) :
          /\ loc' = [loc EXCEPT ![w] =
                        Locals(op, key, arg.Meta, arg.Text,
                               op # "All" /\ ~Concurrent /\ HasDoc(key),
                               IF ~Concurrent THEN Store ELSE <<>>,
                               \E v \in Workers \ {w} : pc[v] # "idle")]
          /\ pc' = [pc EXCEPT ![w] = Entry(op)]
          /\ putCalled' = IF op = "Put" THEN putCalled \cup {key} ELSE putCalled
          /\ delCalled' = IF op = "Delete" THEN delCalled \cup {key} ELSE delCalled
          /\ deleted' = IF op = "Put" THEN deleted \ {key} ELSE deleted
    /\ nops' = nops + 1
    /\ UNCHANGED <<mode, backend, inits, phase, tables, lock, storeVars, nfail, rets, last, prev, written>>

\* the context of the request w serves is cancelled or its deadline passes
\* while the operation runs: ctx.Done() is closed.  The operations of the
\* DynamoDB backend bind the context to _ or hand it to one another only; no
\* call of the SDK receives it
ctxDone(w) ==
    /\ pc[w] # "idle"
    /\ loc[w].ctx = "live"
    /\ loc' = [loc EXCEPT ![w].ctx = "done"]
    /\ UNCHANGED <<mode, backend, inits, phase, tables, lock, storeVars, pc, nops, nfail,
                   ghostVars, written>>

\* --------------------------------------------------------- flat-file backend
\* a read lock that does not wait for the writer
RLockFree_IgnoresWriter == TRUE

\* sync.RWMutex.RLock as taken by Get and All
RLockFree == lock.writer = NoWorker

\* a write lock that waits for nobody
LockFree_NoExclusion == TRUE

\* a write lock that waits for the writer and not for the readers
LockFree_IgnoresReaders == lock.writer = NoWorker

\* sync.RWMutex.Lock as taken by Put and Delete
LockFree == lock.writer = NoWorker /\ lock.readers = {}

FF_RLock(w) ==
    /\ pc[w] \in {"Get.RLock", "All.RLock"}
    /\ RLockFree
    /\ lock' = [lock EXCEPT !.readers = @ \cup {w}]
    /\ pc' = [pc EXCEPT ![w] = IF pc[w] = "Get.RLock" THEN "Get.ReadMeta" ELSE "All.Scan"]
    /\ UNCHANGED <<mode, backend, inits, phase, tables, storeVars, loc, nops, nfail, ghostVars, written>>

FF_Lock(w) ==
    /\ pc[w] \in {"Put.Lock", "Delete.Lock"}
    /\ LockFree
    /\ lock' = [lock EXCEPT !.writer = w]
    /\ pc' = [pc EXCEPT ![w] = IF pc[w] = "Put.Lock" THEN "Put.WriteTid" ELSE "Delete.Hist"]
    /\ UNCHANGED <<mode, backend, inits, phase, tables, storeVars, loc, nops, nfail, ghostVars, written>>

\* Get: ioutil.ReadFile(<skey>.meta)
FF_Get_ReadMeta(w) ==
    /\ pc[w] = "Get.ReadMeta"
    /\ UNCHANGED <<mode, backend, inits, phase, tables, storeVars, nops, putCalled, delCalled, written>>
    /\ LET skey == sanitizeKey(loc[w].key) IN
       \E fail \in (IF skey \in DOMAIN metaFiles THEN Fails ELSE {FALSE}) :
          /\ Count(fail)
          /\ IF skey \notin DOMAIN metaFiles THEN Fail(w, ErrNotFound)
             ELSE IF fail THEN FailIO(w, ErrOther)
             ELSE Step(w, [loc[w] EXCEPT !.got = Tiddler(loc[w].key, metaFiles[skey],
                                                        <<>>, FALSE)],
                       "Get.ReadTid")

\* Get: ioutil.ReadFile(<skey>.tid) and the return of the fat tiddler
FF_Get_ReadTid(w) ==
    /\ pc[w] = "Get.ReadTid"
    /\ UNCHANGED <<mode, backend, inits, phase, tables, storeVars, nops, putCalled, delCalled, written>>
    /\ LET skey == sanitizeKey(loc[w].key) IN
       \E fail \in (IF skey \in DOMAIN tidFiles THEN Fails ELSE {FALSE}) :
          /\ Count(fail)
          /\ IF skey \notin DOMAIN tidFiles THEN Fail(w, ErrNotFound)
             ELSE IF fail THEN FailIO(w, ErrOther)
             ELSE Finish(w, [loc[w] EXCEPT !.t = Tiddler(loc[w].key, loc[w].got.Meta,
                                                        tidFiles[skey], TRUE)])

\* the title json.Unmarshal(meta, &struct{Title *string}{&t.Key}) recovers:
\* [ok, key]; a title that is not a string is an error, no title leaves ""
MetaTitle(bytes) ==
    LET js == Unmarshal(bytes) IN
    IF ~js.ok THEN [ok |-> FALSE, key |-> <<>>]
    ELSE IF "title" \notin DOMAIN js.obj THEN [ok |-> TRUE, key |-> <<>>]
    ELSE IF js.obj["title"].t # "string" THEN [ok |-> FALSE, key |-> <<>>]
    ELSE [ok |-> TRUE, key |-> js.obj["title"].v]

\* the tiddler All builds from the file <name>.meta
FF_AllTiddler(name) ==
    IF ContainsMacro(metaFiles[name])
    THEN Tiddler(MetaTitle(metaFiles[name]).key, metaFiles[name], tidFiles[name], TRUE)
    ELSE Tiddler(MetaTitle(metaFiles[name]).key, metaFiles[name], <<>>, FALSE)

\* whether All skips the file <name>.meta (every failure is a `continue`)
FF_AllSkips(name, unreadable) ==
    \/ name \in unreadable
    \/ ~MetaTitle(metaFiles[name]).ok
    \/ ContainsMacro(metaFiles[name]) /\ name \notin DOMAIN tidFiles

\* All: the Glob of *.meta and the loop over the files
FF_All_Scan(w) ==
    /\ pc[w] = "All.Scan"
    /\ UNCHANGED <<mode, backend, inits, phase, tables, storeVars, nops, putCalled, delCalled, written>>
    /\ \E unreadable \in {{}} \cup {{n} : n \in IF TRUE \in Fails THEN DOMAIN metaFiles ELSE {}} :
          /\ Count(unreadable # {})
          /\ Finish(w, [loc[w] EXCEPT
                          !.all = {FF_AllTiddler(n) : n \in {m \in DOMAIN metaFiles :
                                                       ~FF_AllSkips(m, unreadable)}},
                          !.failed = (unreadable # {})])

\* Put: json.Unmarshal(tiddler.Meta) and ioutil.WriteFile(<skey>.tid)
FF_Put_WriteTid(w) ==
    /\ pc[w] = "Put.WriteTid"
    /\ UNCHANGED <<mode, backend, inits, phase, tables, metaFiles, histFiles, docs, histTable, nops,
                   putCalled, delCalled, written>>
    /\ LET skey == sanitizeKey(loc[w].key) IN
       \E fail \in (IF Unmarshal(loc[w].Meta).ok THEN Fails ELSE {FALSE}) :
          /\ Count(fail)
          /\ IF ~Unmarshal(loc[w].Meta).ok
             THEN UNCHANGED tidFiles /\ Fail(w, ErrOther)
             ELSE IF fail
             THEN UNCHANGED tidFiles /\ FailIO(w, ErrOther)
             ELSE /\ tidFiles' = Write(tidFiles, skey, loc[w].Text)
                  /\ Step(w, loc[w], "Put.NextRev")

\* Put: rev := s.nextRevision(skey)
FF_Put_NextRev(w) ==
    /\ pc[w] = "Put.NextRev"
    /\ Step(w, [loc[w] EXCEPT !.rev = nextRevision(sanitizeKey(loc[w].key))],
            "Put.WriteMeta")
    /\ UNCHANGED <<mode, backend, inits, phase, tables, storeVars, nops, nfail, putCalled, delCalled, written>>

\* Put: ioutil.WriteFile(<skey>.meta, tiddler.Meta)
FF_Put_WriteMeta(w) ==
    /\ pc[w] = "Put.WriteMeta"
    /\ UNCHANGED <<mode, backend, inits, phase, tables, tidFiles, histFiles, docs, histTable, nops,
                   putCalled, delCalled, written>>
    /\ \E fail \in Fails :
          /\ Count(fail)
          /\ IF fail
             THEN UNCHANGED metaFiles /\ FailIO(w, ErrOther)
             ELSE /\ metaFiles' = Write(metaFiles, sanitizeKey(loc[w].key), loc[w].Meta)
                  /\ Step(w, loc[w], "Put.WriteHist")

\* a history document that leaves the text out
FF_HistData_MetaOnly(meta, r, text) ==
    Marshal(SetField(Unmarshal(meta).obj, "revision", JNum(r)))

\* the document Put writes to the history file: the meta with the revision
\* number and the text
FF_HistData(meta, r, text) ==
    Marshal(SetField(SetField(Unmarshal(meta).obj, "revision", JNum(r)),
                     "text", JStr(text)))

\* the count of the writes of a history file after one more
Counted(file) ==
    Write(written, file, IF file \in DOMAIN written THEN written[file] + 1 ELSE 1)

\* Put: the history file <skey>#<rev>, unless the key is exempt, and the return
\* of the revision
FF_Put_WriteHist(w) ==
    /\ pc[w] = "Put.WriteHist"
    /\ UNCHANGED <<mode, backend, inits, phase, tables, tidFiles, metaFiles, docs, histTable, nops,
                   putCalled, delCalled>>
    /\ LET file == HistName(sanitizeKey(loc[w].key), loc[w].rev) IN
       \E fail \in (IF skipHistory(loc[w].key) THEN {FALSE} ELSE Fails) :
          /\ Count(fail)
          /\ IF skipHistory(loc[w].key)
             THEN UNCHANGED <<histFiles, written>> /\ Finish(w, loc[w])
             ELSE IF fail
             THEN UNCHANGED <<histFiles, written>> /\ FailIO(w, ErrOther)
             ELSE /\ histFiles' = Write(histFiles, file,
                                        FF_HistData(loc[w].Meta, loc[w].rev, loc[w].Text))
                  /\ written' = Counted(file)
                  /\ Finish(w, loc[w])

\* Delete: the empty history file <skey>#<next revision>, unless the key is
\* exempt
FF_Delete_Hist(w) ==
    /\ pc[w] = "Delete.Hist"
    /\ UNCHANGED <<mode, backend, inits, phase, tables, tidFiles, metaFiles, docs, histTable, nops,
                   putCalled, delCalled>>
    /\ LET skey == sanitizeKey(loc[w].key)
           file == HistName(skey, nextRevision(skey)) IN
       \E fail \in (IF skipHistory(loc[w].key) THEN {FALSE} ELSE Fails) :
          /\ Count(fail)
          /\ IF skipHistory(loc[w].key)
             THEN UNCHANGED <<histFiles, written>> /\ Step(w, loc[w], "Delete.RemoveMeta")
             ELSE IF fail
             THEN UNCHANGED <<histFiles, written>> /\ FailIO(w, ErrOther)
             ELSE /\ histFiles' = Write(histFiles, file, NilBytes)
                  /\ written' = Counted(file)
                  /\ Step(w, [loc[w] EXCEPT !.rev = nextRevision(skey)],
                          "Delete.RemoveMeta")

\* Delete: os.Remove(<skey>.meta); a missing file is an *os.PathError
FF_Delete_RemoveMeta(w) ==
    /\ pc[w] = "Delete.RemoveMeta"
    /\ UNCHANGED <<mode, backend, inits, phase, tables, tidFiles, histFiles, docs, histTable, nops,
                   putCalled, delCalled, written>>
    /\ LET skey == sanitizeKey(loc[w].key) IN
       \E fail \in (IF skey \in DOMAIN metaFiles THEN Fails ELSE {FALSE}) :
          /\ Count(fail)
          /\ IF skey \notin DOMAIN metaFiles
             THEN UNCHANGED metaFiles /\ Fail(w, ErrOther)
             ELSE IF fail
             THEN UNCHANGED metaFiles /\ FailIO(w, ErrOther)
             ELSE /\ metaFiles' = Remove(metaFiles, skey)
                  /\ Step(w, loc[w], "Delete.RemoveTid")

\* Delete: return os.Remove(<skey>.tid)
FF_Delete_RemoveTid(w) ==
    /\ pc[w] = "Delete.RemoveTid"
    /\ UNCHANGED <<mode, backend, inits, phase, tables, metaFiles, histFiles, docs, histTable, nops,
                   putCalled, delCalled, written>>
    /\ LET skey == sanitizeKey(loc[w].key) IN
       \E fail \in (IF skey \in DOMAIN tidFiles THEN Fails ELSE {FALSE}) :
          /\ Count(fail)
          /\ IF skey \notin DOMAIN tidFiles
             THEN UNCHANGED tidFiles /\ Fail(w, ErrOther)
             ELSE IF fail
             THEN UNCHANGED tidFiles /\ FailIO(w, ErrOther)
             ELSE /\ tidFiles' = Remove(tidFiles, skey)
                  /\ Finish(w, loc[w])

\* ---------------------------------------------------------- DynamoDB backend
\* dynamodbStore.Get: GetItem, UnmarshalMap, WithText = true; every GetItem
\* error is answered with store.ErrNotFound
DDB_Get(w) ==
    /\ pc[w] = "DGet.GetItem"
    /\ UNCHANGED <<mode, backend, inits, phase, tables, storeVars, nops, putCalled, delCalled, written>>
    /\ \E fail \in Fails :
          /\ Count(fail)
          /\ IF fail THEN FailIO(w, ErrNotFound)
             ELSE Finish(w, [loc[w] EXCEPT
                               !.t = [UnmarshalTiddler(GetItem(loc[w].key))
                                        EXCEPT !.WithText = TRUE]])

\* the loop of All over its result: the range variable is a copy, so setting
\* WithText on it leaves the slice as UnmarshalListOfMaps filled it
DDB_HandleSpecial(tiddlers) ==
    {IF ContainsMacro(t.Meta) THEN t ELSE t : t \in tiddlers}

\* dynamodbStore.All: Scan and UnmarshalListOfMaps
DDB_All(w) ==
    /\ pc[w] = "DAll.Scan"
    /\ UNCHANGED <<mode, backend, inits, phase, tables, storeVars, nops, putCalled, delCalled, written>>
    /\ \E fail \in Fails :
          /\ Count(fail)
          /\ IF fail THEN FailIO(w, ErrOther)
             ELSE Finish(w, [loc[w] EXCEPT !.all =
                               DDB_HandleSpecial({UnmarshalTiddler(docs[k]) :
                                                    k \in DOMAIN docs})])

\* dynamodbStore.NextRevision once GetItem answered with item: [out, n]
NextRevisionOf(item) ==
    LET js == GetMeta(UnmarshalTiddler(item)) IN
    IF ~js.ok THEN [out |-> "ok", n |-> 1]
    ELSE IF MetaRevision(js).out = "panic" THEN [out |-> "panic", n |-> 0]
    ELSE IF MetaRevision(js).out = "atoi" THEN [out |-> "ok", n |-> 1]
    ELSE [out |-> "ok", n |-> MetaRevision(js).n + 1]

\* TiddlerData.Put up to the revision: GetMeta(tiddler), then NextRevision with
\* its GetItem (not issued for exempt keys; an error yields the default 1)
DDB_Put_NextRevision(w) ==
    /\ pc[w] = "DPut.NextRevision"
    /\ UNCHANGED <<mode, backend, inits, phase, tables, storeVars, nops, putCalled, delCalled, written>>
    /\ LET valid == GetMeta(Tiddler(loc[w].key, loc[w].Meta, loc[w].Text, FALSE)).ok IN
       \E fail \in (IF valid /\ ~skipHistory(loc[w].key) THEN Fails ELSE {FALSE}) :
          /\ Count(fail)
          /\ IF ~valid THEN Fail(w, ErrOther)
             ELSE IF skipHistory(loc[w].key)
             THEN Step(w, [loc[w] EXCEPT !.rev = 1], "DPut.PutItem")
             ELSE IF fail
             THEN Step(w, [loc[w] EXCEPT !.rev = 1, !.failed = TRUE], "DPut.PutItem")
             ELSE LET nr == NextRevisionOf(GetItem(loc[w].key)) IN
                  IF nr.out = "panic" THEN Fail(w, ErrPanic)
                  ELSE Step(w, [loc[w] EXCEPT !.rev = nr.n], "DPut.PutItem")

\* the meta TiddlerData.Put stores: jsMeta["revision"] = strconv.Itoa(nextRev)
DDB_PutMeta(meta, r) ==
    Marshal(SetField(Unmarshal(meta).obj, "revision", JStr(Itoa(r))))

\* a PutItem conditional on the key being new (attribute_not_exists)
PutItemRejects_IfExists(table, k) == k \in DOMAIN table

\* PutItemInput carries an Item and a TableName and no ConditionExpression: the
\* service never rejects a write because of what the table holds under key k
PutItemRejects(table, k) == FALSE

\* svc.PutItem: the item replaces whatever the table holds under its key
PutItem(table, k, item) == Write(table, k, item)

\* TiddlerData.Put: PutItem on the tiddlers table; dynamodbStore.Put then goes
\* on to the history table unless the key is exempt
DDB_Put_PutItem(w) ==
    /\ pc[w] = "DPut.PutItem"
    /\ UNCHANGED <<mode, backend, inits, phase, tables, tidFiles, metaFiles, histFiles, histTable, nops,
                   putCalled, delCalled, written>>
    /\ \E fail \in Fails :
          /\ Count(fail)
          /\ IF fail
             THEN UNCHANGED docs /\ FailIO(w, ErrOther)
             ELSE IF PutItemRejects(docs, loc[w].key)
             THEN UNCHANGED docs /\ Fail(w, ErrOther)
             ELSE /\ docs' = PutItem(docs, loc[w].key,
                                MarshalTiddler(Tiddler(loc[w].key,
                                                       DDB_PutMeta(loc[w].Meta, loc[w].rev),
                                                       loc[w].Text, FALSE)))
                  /\ IF skipHistory(loc[w].key)
                     THEN Finish(w, loc[w])
                     ELSE Step(w, loc[w], "DPut.PutHistory")

\* the key of a history item in its table
RevisionKey(item) == <<item.Key.V, Atoi(item.Revision.V).n>>

\* a Put that restores the tiddlers table when the history write fails
DocsAfterHistoryError_RolledBack(w) == loc[w].snap[4]

\* dynamodbStore.Put returns the error of tiddlerHistory.Put as it is: the item
\* TiddlerData.Put wrote stays in the tiddlers table
DocsAfterHistoryError(w) == docs

\* TiddlerHistory.Put: PutItem on the history table, and the return of the
\* revision
DDB_Put_PutHistory(w) ==
    /\ pc[w] = "DPut.PutHistory"
    /\ UNCHANGED <<mode, backend, inits, phase, tables, tidFiles, metaFiles, histFiles, nops,
                   putCalled, delCalled, written>>
    /\ \E fail \in HistoryFails :
          /\ Count(fail /\ tableHistory \in tables)
          /\ IF fail
             THEN /\ docs' = DocsAfterHistoryError(w)
                  /\ UNCHANGED histTable
                  /\ FailIO(w, ErrOther)
             ELSE LET item == MarshalRevision(loc[w].key, loc[w].Text, loc[w].rev) IN
                  /\ UNCHANGED docs
                  /\ histTable' = PutItem(histTable, RevisionKey(item), item)
                  /\ Finish(w, loc[w])

\* Delete: d.Get(c, key); its error is answered with a new error value
DDB_Delete_Get(w) ==
    /\ pc[w] = "DDel.Get"
    /\ UNCHANGED <<mode, backend, inits, phase, tables, storeVars, nops, putCalled, delCalled, written>>
    /\ \E fail \in Fails :
          /\ Count(fail)
          /\ IF fail THEN FailIO(w, ErrOther)
             ELSE Step(w, [loc[w] EXCEPT
                             !.got = [UnmarshalTiddler(GetItem(loc[w].key))
                                        EXCEPT !.WithText = TRUE]],
                       "DDel.DeleteItem")

\* Delete: TiddlerData.Delete (DeleteItem), then GetMeta and strconv.Atoi of
\* the revision of the tiddler fetched before
DDB_Delete_DeleteItem(w) ==
    /\ pc[w] = "DDel.DeleteItem"
    /\ UNCHANGED <<mode, backend, inits, phase, tables, tidFiles, metaFiles, histFiles, histTable, nops,
                   putCalled, delCalled, written>>
    /\ \E fail \in Fails :
          /\ Count(fail)
          /\ IF fail
             THEN UNCHANGED docs /\ FailIO(w, ErrOther)
             ELSE /\ docs' = Remove(docs, loc[w].key)
                  /\ LET js == GetMeta(loc[w].got) IN
                     IF ~js.ok THEN Fail(w, ErrOther)
                     ELSE IF MetaRevision(js).out = "panic" THEN Fail(w, ErrPanic)
                     ELSE IF MetaRevision(js).out = "atoi" THEN Fail(w, ErrOther)
                     ELSE IF MetaRevision(js).n < 1 THEN Finish(w, loc[w])
                     ELSE Step(w, [loc[w] EXCEPT !.cur = MetaRevision(js).n, !.i = 1],
                               "DDel.History")

\* a loop over the revisions that returns at the first deletion that fails
HistoryLoopAborts_OnError(fail) == fail

\* the body of the loop over the revisions logs a failed deletion; it has no
\* return and no break
HistoryLoopAborts(fail) == FALSE

\* Delete: one round of the loop over the revisions, TiddlerHistory.Delete(key, i);
\* a failure is logged and the loop goes on; after the last round Delete
\* returns nil
DDB_Delete_History(w) ==
    /\ pc[w] = "DDel.History"
    /\ UNCHANGED <<mode, backend, inits, phase, tables, tidFiles, metaFiles, histFiles, docs, nops,
                   putCalled, delCalled, written>>
    /\ \E fail \in HistoryFails :
          /\ Count(fail /\ tableHistory \in tables)
          /\ histTable' = IF fail THEN histTable
                          ELSE Remove(histTable, <<loc[w].key, Atoi(Itoa(loc[w].i)).n>>)
          /\ LET l == [loc[w] EXCEPT !.i = @ + 1, !.failed = @ \/ fail] IN
             IF HistoryLoopAborts(fail) THEN FailIO(w, ErrOther)
             ELSE IF l.i <= l.cur THEN Step(w, l, "DDel.History")
             ELSE Finish(w, l)

\* ------------------------------------------------- the store as a contract
\* the errors the store contract lets an operation return: Get and Delete may
\* report the "not found" sentinel, every operation an I/O failure
ContractErrors(op) ==
    IF op \in {"Get", "Delete"} THEN {ErrNil, ErrNotFound, ErrOther} ELSE {ErrNil, ErrOther}

\* Store.Get / All / Put / Delete of the store behind api.Store return
Store_Answer(w) ==
    /\ pc[w] = "Store.Call"
    /\ UNCHANGED <<mode, backend, inits, phase, tables, storeVars, nops, nfail, putCalled,
                   delCalled, written>>
    /\ \E err \in ContractErrors(loc[w].op) :
          IF err # ErrNil THEN Fail(w, err)
          ELSE Finish(w, [loc[w] EXCEPT
                    !.t = IF loc[w].op = "Get"
                          THEN Tiddler(loc[w].key, MetaPlain(loc[w].key), TextHi, TRUE)
                          ELSE ZeroTiddler,
                    !.rev = IF loc[w].op = "Put" THEN 1 ELSE 0])

\* ------------------------------------------------------------ specification
Next ==
    \/ \E b \in Backends : init(b)
    \/ main
    \/ \E t \in TableNames : TableExists(t)
    \/ \E t \in TableNames : CreateTable(t)
    \/ \E w \in Workers :
        \/ Call(w)
        \/ FF_RLock(w)
        \/ FF_Lock(w)
        \/ FF_Get_ReadMeta(w)
        \/ FF_Get_ReadTid(w)
        \/ FF_All_Scan(w)
        \/ FF_Put_WriteTid(w)
        \/ FF_Put_NextRev(w)
        \/ FF_Put_WriteMeta(w)
        \/ FF_Put_WriteHist(w)
        \/ FF_Delete_Hist(w)
        \/ FF_Delete_RemoveMeta(w)
        \/ FF_Delete_RemoveTid(w)
        \/ DDB_Get(w)
        \/ DDB_All(w)
        \/ DDB_Put_NextRevision(w)
        \/ DDB_Put_PutItem(w)
        \/ DDB_Put_PutHistory(w)
        \/ DDB_Delete_Get(w)
        \/ DDB_Delete_DeleteItem(w)
        \/ DDB_Delete_History(w)

Spec == Init /\ [][Next]_vars

SpecConc == InitConc /\ [][Next]_vars

\* the lambda build: the DynamoDB backend on its own, serving requests whose
\* contexts may fire
NextLambda ==
    \/ \E b \in Backends : init(b)
    \/ main
    \/ \E t \in TableNames : TableExists(t)
    \/ \E t \in TableNames : CreateTable(t)
    \/ \E w \in Workers :
        \/ Call(w)
        \/ ctxDone(w)
        \/ DDB_Get(w)
        \/ DDB_All(w)
        \/ DDB_Put_NextRevision(w)
        \/ DDB_Put_PutItem(w)
        \/ DDB_Put_PutHistory(w)
        \/ DDB_Delete_Get(w)
        \/ DDB_Delete_DeleteItem(w)
        \/ DDB_Delete_History(w)

SpecLambda == InitLambda /\ [][NextLambda]_vars

\* a step of the call worker w runs in the flat-file backend
FF_Step(w) ==
    \/ FF_RLock(w)
    \/ FF_Lock(w)
    \/ FF_Get_ReadMeta(w)
    \/ FF_Get_ReadTid(w)
    \/ FF_All_Scan(w)
    \/ FF_Put_WriteTid(w)
    \/ FF_Put_NextRev(w)
    \/ FF_Put_WriteMeta(w)
    \/ FF_Put_WriteHist(w)
    \/ FF_Delete_Hist(w)
    \/ FF_Delete_RemoveMeta(w)
    \/ FF_Delete_RemoveTid(w)

\* the flatfile build with concurrent callers
NextFlat ==
    \/ \E b \in Backends : init(b)
    \/ main
    \/ \E w \in Workers :
        \/ Call(w)
        \/ FF_Step(w)

\* the goroutine of a call that can take a step takes one: the scheduler runs
\* it, the filesystem calls return, and the mutex hands the lock over
SpecFlat == InitFlat /\ [][NextFlat]_vars /\ \A w \in Workers : WF_vars(FF_Step(w))

\* the handlers over any store that keeps the store contract
NextHTTP ==
    \E w \in Workers :
        \/ Call(w)
        \/ Store_Answer(w)

SpecHTTP == InitHTTP /\ [][NextHTTP]_vars

TypeOK ==
    /\ backend \in Backends \cup {NoBackend, AnyStore}
    /\ phase \in {"init", "run", "panic"}
                \cup {PhaseExists(t) : t \in TableNames}
                \cup {PhaseCreate(t) : t \in TableNames}
    /\ tables \subseteq TableNames
    /\ mode \in {"seq", "conc", "lambda", "http", "flat"}
    /\ nfail \in 0..MaxFail
    /\ \A w \in Workers : loc[w].op \in Ops \cup {"none"}

\* ------------------------------------------------------------- properties
\* no call on another key with the same sanitized name was made: the flat-file
\* backend keeps such keys in the same files
AliasFree(k) ==
    \A k2 \in (putCalled \cup delCalled) \ {k} : sanitizeKey(k2) # sanitizeKey(k)

StrictlyIncreasing(seq) == \A i, j \in 1..Len(seq) : i < j => seq[i] < seq[j]
Consecutive(seq) == \A i \in 1..Len(seq) : seq[i] = i

\* C1: in a sequential run of Puts on a key with no Delete on it, the first Put
\* returns revision 1 and every later Put the previous revision + 1, exempt keys
\* included (stated for runs in which no filesystem / remote call failed and
\* no alias of the key was used)
C1_PutsCountUp ==
    \A k \in Keys :
        (nfail = 0 /\ k \notin delCalled /\ AliasFree(k)) => Consecutive(rets[k])

\* C2: every successful Put on a key returns a revision greater than every
\* revision returned for the key before, also after a Delete of the key (stated
\* for non-exempt keys and runs in which no filesystem / remote call failed)
C2_NoRevisionReuse ==
    \A k \in Keys :
        (nfail = 0 /\ ~skipHistory(k) /\ AliasFree(k)) => StrictlyIncreasing(rets[k])

\* C3: flat-file backend, concurrent Puts on one non-exempt key: no two Puts
\* return the same revision, no history file is written twice, and as long as
\* no Delete was called on the key the revisions returned are 1, 2, 3, ...
C3_FlatFilePutsSerialized ==
    backend = "flatfile" =>
        /\ \A f \in DOMAIN written : written[f] = 1
        /\ \A k \in ConcKeys :
              ~skipHistory(k) =>
                 /\ StrictlyIncreasing(rets[k])
                 /\ k \notin delCalled => Consecutive(rets[k])

\* two Puts that ran concurrently on one key have both returned
C3_Witness ==
    /\ backend = "flatfile"
    /\ last.op = "Put" /\ prev.op = "Put" /\ last.conc
    /\ last.key = prev.key /\ ~skipHistory(last.key)
    /\ last.err = ErrNil /\ prev.err = ErrNil
    /\ prev.rev = 1 /\ last.rev = 2

\* C4: cloud backend: a Put reports an error only when its meta is not JSON or
\* one of its own remote calls failed; a write that races with another Put on
\* the key and replaces its items is reported to nobody
C4_RaceIsSilent ==
    backend = "dynamodb" =>
        ((last.op = "Put" /\ last.err # ErrNil) =>
            (last.failed \/ ~Unmarshal(last.Meta).ok))

\* two concurrent Puts of different texts on one non-exempt key both returned
\* revision 1 without error; the tables hold the text of one of them only
C4_Witness ==
    /\ backend = "dynamodb"
    /\ last.op = "Put" /\ prev.op = "Put" /\ last.conc
    /\ last.key = prev.key /\ ~skipHistory(last.key)
    /\ last.err = ErrNil /\ prev.err = ErrNil
    /\ ~last.failed /\ ~prev.failed
    /\ last.rev = 1 /\ prev.rev = 1
    /\ last.Text # prev.Text
    /\ DOMAIN histTable = {<<last.key, 1>>}
    /\ histTable[<<last.key, 1>>].Text = EncodeString(last.Text)
    /\ docs[last.key].Text = EncodeString(last.Text)

\* whether worker w is between the acquisition of the flat-file lock and its
\* release
InCS(w) ==
    /\ backend = "flatfile"
    /\ pc[w] \notin {"idle", "Get.RLock", "All.RLock", "Put.Lock", "Delete.Lock"}

\* C5: flat-file lock discipline: while a Put or Delete is in its critical
\* section no other call is in its critical section
C5_LockDiscipline ==
    \A w, v \in Workers :
        (w # v /\ InCS(w) /\ loc[w].op \in {"Put", "Delete"}) => ~InCS(v)

\* two readers are in their critical sections together
C5_Witness ==
    /\ \A w \in Workers : InCS(w) /\ loc[w].op \in {"Get", "All"}
    /\ lock.readers = Workers

\* the members of a JSON document other than `revision`
WithoutRevision(bytes) ==
    LET obj == Unmarshal(bytes).obj
    IN  [n \in DOMAIN obj \ {"revision"} |-> obj[n]]

\* a successful Put was followed at once by a successful Get of the same key
PutThenGet ==
    /\ last.op = "Get" /\ last.err = ErrNil
    /\ prev.op = "Put" /\ prev.err = ErrNil
    /\ prev.key = last.key

\* C6 as stated: the Get returns the meta that was put, the text that was put
\* and withText = true
C6_RoundTripExact ==
    PutThenGet =>
        /\ last.t.Meta = prev.Meta
        /\ last.t.Text = prev.Text
        /\ last.t.WithText

\* C6 amended: the Get returns the text that was put, withText = true, and a
\* meta with the members that were put apart from `revision`: the flat-file
\* backend returns the bytes that were put, the cloud backend the object that
\* was put with `revision` set to the revision Put returned
C6_RoundTrip ==
    PutThenGet =>
        /\ last.t.Key = prev.key
        /\ last.t.Text = prev.Text
        /\ last.t.WithText
        /\ WithoutRevision(last.t.Meta) = WithoutRevision(prev.Meta)
        /\ backend = "flatfile" => last.t.Meta = prev.Meta
        /\ backend = "dynamodb" =>
              last.t.Meta = Marshal(SetField(Unmarshal(prev.Meta).obj, "revision",
                                             JStr(Itoa(prev.rev))))

\* the cloud backend returned a put tiddler with its text
C6_Witness ==
    /\ PutThenGet
    /\ backend = "dynamodb"
    /\ prev.Text = TextHi
    /\ last.t.Meta # prev.Meta

\* C7: after a successful Delete of a key and until the next Put on it, Get of
\* the key returns ErrNotFound and All returns no document with the key
C7_DeletedIsGone ==
    /\ (last.op = "Get" /\ last.key \in deleted) => last.err = ErrNotFound
    /\ (last.op = "All" /\ last.err = ErrNil) =>
          \A t \in last.all : t.Key \notin deleted

\* C8: Delete of a key that has no current document returns ErrNotFound and
\* leaves the store as it was (stated for runs in which no filesystem / remote
\* call failed)
C8_DeleteMissing ==
    (nfail = 0 /\ last.op = "Delete" /\ ~last.hadDoc) =>
        (last.err = ErrNotFound /\ last.unchanged)

\* C9: Get returns ErrNotFound only when the key has no current document; a
\* failed read of a key that has one is another error
C9_NotFoundOnlyWhenMissing ==
    (last.op = "Get" /\ last.err = ErrNotFound) => ~last.hadDoc

\* whether the history file belongs to the sanitized key
HistFileOf(file, skey) == HasPrefix(file, skey \o <<"#">>)

\* C10: no history entry exists for "$:/StoryList" nor for a "Draft of " key,
\* however many Puts were made on them (Keys holds no non-exempt key with the
\* sanitized name of an exempt one)
C10_ExemptKeysHaveNoHistory ==
    \A k \in Keys :
        (k = StoryList \/ HasPrefix(k, DraftPrefix)) =>
            /\ \A f \in DOMAIN histFiles : ~HistFileOf(f, sanitizeKey(k))
            /\ \A e \in DOMAIN histTable : e[1] # k

\* each exempt key was put twice, next to a key that has history
C10_Witness ==
    /\ Len(rets[KeyDraft]) >= 1
    /\ Len(rets[StoryList]) >= 2
    /\ DOMAIN histFiles = {} /\ DOMAIN histTable = {}

\* no call is running: the store is as the call that returned last left it
Quiet == \A w \in Workers : pc[w] = "idle"

\* the text of the current document of key, as the backend keeps it
CurrentText(key) ==
    IF backend = "flatfile"
    THEN tidFiles[sanitizeKey(key)]
    ELSE UnmarshalTiddler(docs[key]).Text

\* C11: every document All returns without error has withText = false when its
\* meta does not carry the macro tag, and withText = true with the stored body
\* text when it does (stated for runs in which no filesystem / remote call
\* failed)
C11_AllFatMacros ==
    (Quiet /\ nfail = 0 /\ last.op = "All" /\ last.err = ErrNil) =>
        \A t \in last.all :
            IF ContainsMacro(t.Meta)
            THEN t.WithText /\ t.Text = CurrentText(t.Key)
            ELSE ~t.WithText

\* the text a history entry of the flat-file backend holds
HistFileText(bytes) ==
    IF bytes.ok /\ "text" \in DOMAIN Unmarshal(bytes).obj
    THEN Unmarshal(bytes).obj["text"]
    ELSE JStr(<<"?">>)

\* C12: when Put on a non-exempt key returns revision r without error, the
\* current document of the key holds the text that was put and the history
\* entry (key, r) exists and holds that text too
C12_PutWritesDocAndHistory ==
    (Quiet /\ last.op = "Put" /\ last.err = ErrNil /\ ~(last.key = StoryList) /\
     ~HasPrefix(last.key, DraftPrefix)) =>
        IF backend = "flatfile"
        THEN /\ sanitizeKey(last.key) \in DOMAIN tidFiles
             /\ sanitizeKey(last.key) \in DOMAIN metaFiles
             /\ tidFiles[sanitizeKey(last.key)] = last.Text
             /\ HistName(sanitizeKey(last.key), last.rev) \in DOMAIN histFiles
             /\ HistFileText(histFiles[HistName(sanitizeKey(last.key), last.rev)])
                   = JStr(last.Text)
        ELSE /\ last.key \in DOMAIN docs
             /\ UnmarshalTiddler(docs[last.key]).Text = last.Text
             /\ <<last.key, last.rev>> \in DOMAIN histTable
             /\ histTable[<<last.key, last.rev>>].Revision = AttrN(last.rev)
             /\ histTable[<<last.key, last.rev>>].Text \in {AttrS(last.Text), AttrNull}
             /\ histTable[<<last.key, last.rev>>].Text = AttrNull <=> last.Text = <<>>

\* a second Put on a non-exempt key returned revision 2; both history entries
\* and the current document are there
C12_Witness ==
    /\ Quiet
    /\ last.op = "Put" /\ last.err = ErrNil /\ last.rev = 2
    /\ last.key = KeyUnder /\ last.Text = TextHi
    /\ IF backend = "flatfile"
       THEN {HistName(sanitizeKey(KeyUnder), 1), HistName(sanitizeKey(KeyUnder), 2)}
               \subseteq DOMAIN histFiles
       ELSE {<<KeyUnder, 1>>, <<KeyUnder, 2>>} \subseteq DOMAIN histTable

\* some worker is running op on key
Running(op, key) == \E w \in Workers : loc[w].op = op /\ loc[w].key = key

\* C13: history is append-only: a history entry that exists keeps its content
\* in every step, and it goes away only in a step of a Delete of its key
C13_HistoryAppendOnly ==
    [][/\ \A e \in DOMAIN histTable :
             IF e \in DOMAIN histTable'
             THEN histTable'[e] = histTable[e]
             ELSE Running("Delete", e[1])
        /\ \A f \in DOMAIN histFiles :
             IF f \in DOMAIN histFiles'
             THEN histFiles'[f] = histFiles[f]
             ELSE \E k \in Keys : HistFileOf(f, sanitizeKey(k)) /\ Running("Delete", k)]_vars

\* C14: flat-file backend: after a successful Delete of a non-exempt key neither
\* <key>.meta nor <key>.tid exists and no history file <key>#i exists (stated
\* for runs in which no filesystem call failed)
C14_FlatFileDeleteRemovesHistory ==
    (Quiet /\ nfail = 0 /\ backend = "flatfile" /\ last.op = "Delete" /\ last.err = ErrNil /\
     ~skipHistory(last.key)) =>
        /\ sanitizeKey(last.key) \notin DOMAIN metaFiles
        /\ sanitizeKey(last.key) \notin DOMAIN tidFiles
        /\ \A f \in DOMAIN histFiles : ~HistFileOf(f, sanitizeKey(last.key))

\* the value of the `revision` member of the current metadata of key, as a
\* decimal string; <<>> if the metadata has no such member
CurrentRevision(key) ==
    LET meta == IF backend = "flatfile"
                THEN metaFiles[sanitizeKey(key)]
                ELSE UnmarshalTiddler(docs[key]).Meta
    IN  IF "revision" \in DOMAIN Unmarshal(meta).obj
        THEN Unmarshal(meta).obj["revision"].v
        ELSE <<>>

\* C17: after a Put on a key has returned revision r, the current metadata the
\* backend keeps for the key has a `revision` member whose value is r (stated
\* for runs in which no filesystem / remote call failed)
C17_MetaCarriesRevision ==
    (Quiet /\ nfail = 0 /\ last.op = "Put" /\ last.err = ErrNil) =>
        CurrentRevision(last.key) = Itoa(last.rev)

\* C19: whenever a filesystem or remote call of an operation fails, the
\* operation returns an error; the only exception is the deletion of the
\* history items in the cloud Delete
C19_FailuresAreReturned ==
    (last.failed /\ ~(backend = "dynamodb" /\ last.op = "Delete")) =>
        last.err # ErrNil

\* C16: cloud backend: every round of the history loop of Delete, whether its
\* deletion fails or not, is followed by the round of the next revision until
\* the current revision is done, and then Delete returns nil with the document
\* item removed; a round whose deletion does not fail removes its history item
C16_HistoryCleanupIsBestEffort ==
    [][\A w \in Workers :
          (pc[w] = "DDel.History" /\ <<pc'[w], loc'[w].i>> # <<pc[w], loc[w].i>>) =>
             /\ loc[w].key \notin DOMAIN docs'
             /\ nfail' = nfail => <<loc[w].key, loc[w].i>> \notin DOMAIN histTable'
             /\ IF loc[w].i < loc[w].cur
                THEN /\ pc'[w] = "DDel.History"
                     /\ loc'[w].i = loc[w].i + 1
                     /\ loc'[w].cur = loc[w].cur
                ELSE /\ pc'[w] = "idle"
                     /\ last'.op = "Delete" /\ last'.key = loc[w].key
                     /\ last'.err = ErrNil]_vars

\* a Delete of a key with two revisions returned nil although the deletion of
\* the first history item failed; the second history item is gone
C16_Witness ==
    /\ backend = "dynamodb" /\ Quiet
    /\ last.op = "Delete" /\ last.err = ErrNil /\ last.failed
    /\ last.key \notin DOMAIN docs
    /\ DOMAIN histTable = {<<last.key, 1>>}
    /\ Len(rets[last.key]) = 2

\* C18: the registry slot is empty until the first registration, holds the
\* backend registered first from then on, a second registration ends the
\* process, and a store is only ever opened with exactly one backend registered
C18_SingleSlotRegistry ==
    /\ backend = IF inits = <<>> THEN NoBackend ELSE inits[1]
    /\ Len(inits) >= 2 => phase = "panic"
    /\ phase = "run" => Len(inits) = 1

\* a second backend tried to register: the process panicked and the slot still
\* holds the first backend
C18_Witness ==
    /\ Len(inits) = 2
    /\ phase = "panic"
    /\ backend = inits[1] /\ backend # inits[2]

\* C15: cloud backend: after successful Puts on a key, a Delete of the key in
\* which no remote call fails leaves no document item and no history item of
\* the key, and no history item is deleted while the document item exists
C15_CloudDeleteRemovesAll ==
    /\ [](( /\ Quiet /\ backend = "dynamodb"
            /\ last.op = "Delete" /\ last.err = ErrNil /\ ~last.failed) =>
              /\ last.key \notin DOMAIN docs
              /\ \A e \in DOMAIN histTable : e[1] # last.key)
    /\ [][\A e \in DOMAIN histTable : e \notin DOMAIN histTable' => e[1] \notin DOMAIN docs]_vars

\* C20: cloud backend: once the context of a running operation has fired, the
\* next thing the operation does is to return an error; it completes no remote
\* call after that
C20_FiredContextAborts ==
    [][\A w \in Workers :
          (backend = "dynamodb" /\ loc[w].ctx = "done" /\ pc'[w] # pc[w]) =>
             /\ pc'[w] = "idle"
             /\ last'.err # ErrNil
             /\ Store' = Store]_vars

C22_Provisioning ==
    /\ []((backend = "dynamodb" /\ Len(inits) = 1 /\ tables = TableNames)
            => phase # "panic")
    /\ [][\A t \in TableNames :
            /\ (phase' = PhaseCreate(t) /\ phase # PhaseCreate(t)) => phase = PhaseExists(t)
            /\ (phase = PhaseExists(t) /\ t \notin tables) => phase' = PhaseCreate(t)]_vars

\* the two keys of the model that the flat-file backend keeps in the same files
Aliases(k1, k2) == {k1, k2} = {KeySlash, KeyUnder}

Mutating(key) == Running("Put", key) \/ Running("Delete", key)

\* a Put or a Delete on a key with the sanitized name skey is running
MutatingName(skey) ==
    \E w \in Workers : loc[w].op \in {"Put", "Delete"} /\ sanitizeKey(loc[w].key) = skey

\* f and g agree on x: both lack it, or both hold the same value
Same(f, g, x) ==
    IF x \in DOMAIN f THEN x \in DOMAIN g /\ g[x] = f[x] ELSE x \notin DOMAIN g

\* C27: a step changes the current document (with its revision) and the
\* history entries of a key only while a Put or a Delete on that key is running
\* (for the flat-file backend: on a key with the same sanitized name), so Put(k)
\* and Delete(k) leave every other key as it was and Get and All change nothing
C27_Frame ==
    [][/\ \A k \in DOMAIN docs \cup DOMAIN docs' :
            Same(docs, docs', k) \/ Mutating(k)
       /\ \A e \in DOMAIN histTable \cup DOMAIN histTable' :
            Same(histTable, histTable', e) \/ Mutating(e[1])
       /\ \A n \in DOMAIN tidFiles \cup DOMAIN tidFiles' :
            Same(tidFiles, tidFiles', n) \/ MutatingName(n)
       /\ \A n \in DOMAIN metaFiles \cup DOMAIN metaFiles' :
            Same(metaFiles, metaFiles', n) \/ MutatingName(n)
       /\ \A f \in DOMAIN histFiles \cup DOMAIN histFiles' :
            Same(histFiles, histFiles', f)
            \/ \E w \in Workers : /\ loc[w].op \in {"Put", "Delete"}
                                  /\ HistFileOf(f, sanitizeKey(loc[w].key))
       /\ (\A w \in Workers : loc[w].op \notin {"Put", "Delete"})
            => UNCHANGED storeVars]_vars

\* a Delete removed the document and the history of "a_b" next to those of "a/b"
C27_Witness ==
    /\ backend = "dynamodb" /\ Quiet
    /\ last.op = "Delete" /\ last.key = KeyUnder /\ last.err = ErrNil /\ last.hadDoc
    /\ KeyUnder \notin DOMAIN docs
    /\ KeySlash \in DOMAIN docs
    /\ <<KeySlash, 1>> \in DOMAIN histTable
    /\ \A e \in DOMAIN histTable : e[1] # KeyUnder

\* the revision the tiddlers table holds for key in table d, 0 if it holds none
StoredRevision(d, key) ==
    IF key \in DOMAIN d
       /\ "revision" \in DOMAIN Unmarshal(UnmarshalTiddler(d[key]).Meta).obj
    THEN Atoi(Unmarshal(UnmarshalTiddler(d[key]).Meta).obj["revision"].v).n
    ELSE 0

\* the step in which the Put of worker w returns because its history write failed
HistoryWriteFails(w) ==
    /\ pc[w] = "DPut.PutHistory" /\ pc'[w] = "idle" /\ last'.err # ErrNil

\* C28: the cloud Put writes the item of the tiddlers table before the item of
\* the history table and does not roll back: when the history write fails, Put
\* returns an error and revision 0, the tiddlers table holds the new text with
\* the new revision r, no history item (key, r) exists, and the next successful
\* Put on the key returns r + 1 (stated for sequential runs in which that
\* history write is the only remote call that failed)
C28_NoRollback ==
    /\ [](\A w \in Workers :
            pc[w] = "DPut.PutHistory" =>
                /\ loc[w].key \in DOMAIN docs
                /\ UnmarshalTiddler(docs[loc[w].key]).Text = loc[w].Text
                /\ StoredRevision(docs, loc[w].key) = loc[w].rev
                /\ (nfail = 0 => <<loc[w].key, loc[w].rev>> \notin DOMAIN histTable))
    /\ [][\A w \in Workers :
            /\ (HistoryWriteFails(w) /\ nfail = 0) =>
                 /\ last'.rev = 0
                 /\ loc[w].key \in DOMAIN docs'
                 /\ UnmarshalTiddler(docs'[loc[w].key]).Text = loc[w].Text
                 /\ StoredRevision(docs', loc[w].key) = loc[w].rev
                 /\ loc[w].rev >= 1
                 /\ <<loc[w].key, loc[w].rev>> \notin DOMAIN histTable'
            /\ (/\ pc[w] # "idle" /\ pc'[w] = "idle" /\ nfail' = 1
                /\ last'.op = "Put" /\ last'.err = ErrNil
                /\ last.op = "Put" /\ last.err # ErrNil /\ last.failed /\ ~last.unchanged
                /\ last.key = last'.key /\ backend = "dynamodb") =>
                 last'.rev = StoredRevision(loc[w].snap[4], loc[w].key) + 1]_vars

\* the history write of a Put failed after revision 1 had been stored, and the
\* Put after it returned 2
C28_Witness ==
    /\ backend = "dynamodb" /\ Quiet /\ nfail = 1
    /\ prev.op = "Put" /\ prev.err # ErrNil /\ prev.failed /\ ~prev.unchanged /\ prev.rev = 0
    /\ last.op = "Put" /\ last.err = ErrNil /\ last.key = prev.key /\ last.rev = 2
    /\ <<last.key, 1>> \notin DOMAIN histTable
    /\ <<last.key, 2>> \in DOMAIN histTable

\* the text and the meta of tiddler t were given to one and the same Put on a
\* key with the sanitized name of key
FromOnePut(t, key) ==
    \E k \in Keys :
        /\ sanitizeKey(k) = sanitizeKey(key)
        /\ \E in \in PutInputs(k) : in.Meta = t.Meta /\ in.Text = t.Text

C24_NotFoundIs404 ==
    (last.op \in {"Get", "Delete"} /\ last.err \notin {ErrNil, ErrPanic}) =>
        last.status = IF last.err = ErrNotFound
                      THEN StatusNotFound
                      ELSE StatusInternalServerError

\* C23: in the flat-file backend a call that has returned, with an error or
\* without, holds no lock, and every call of a finite set of concurrent calls
\* returns
C23_EveryCallReturns ==
    /\ [](\A w \in Workers :
            pc[w] = "idle" => (lock.writer # w /\ w \notin lock.readers))
    /\ \A w \in Workers : (pc[w] # "idle") ~> (pc[w] = "idle")

\* the first Put returned an error while the second call waited for the lock,
\* which it holds now
C23_Witness ==
    /\ backend = "flatfile" /\ nops = 2
    /\ last.op = "Put" /\ last.failed /\ last.err # ErrNil
    /\ lock.writer = "w2" /\ loc["w2"].conc

====
